---------------------------- MODULE Spec2Model ----------------------------
(***************************************************************************)
(* Model of MovieDialogFb._generate_examples and _split_generators         *)
(* (src/datasets/movie_dialogs_fb/movie_dialogs_fb.py, lines 121-175).     *)
(*                                                                         *)
(* A text is a sequence of characters; a character is a one-element        *)
(* string, except Nbsp, which stands for U+00A0.  A generator object is    *)
(* created by calling _generate_examples(filepath); its body runs only     *)
(* when the caller pulls with next().  The first pull opens the file,      *)
(* reads it whole, splits it into rows and runs the loop up to the first   *)
(* yield; every later pull resumes after the yield.                        *)
(***************************************************************************)
EXTENDS Integers, Sequences, FiniteSets, TLC

VARIABLES
    stream,           \* stream[g]: the characters open(filepath) delivers
    pc,               \* pc[g]: "created", "suspended", "done" or "failed"
    fopen,            \* fopen[g]: the handle f of the with-block is open
    data,             \* data[g]: the list f.read().splitlines()
    id_,              \* id_[g]: enumerate index of the row last yielded
    conversation_id,  \* conversation_id[g]: local of the generator frame
    utterance_id,     \* utterance_id[g]: local of the generator frame
    out,              \* out[g]: the (key, example) pairs the caller received
    err,              \* err[g]: the exception the caller received, if any
    builder           \* the call of _split_generators: self.config.name, what
                      \* dl_manager extracts each URL to, the URL asked for,
                      \* data_dir, and the list returned or the exception

vars == <<stream, pc, fopen, data, id_, conversation_id, utterance_id, out, err,
          builder>>

----------------------------------------------------------------------------
(* Characters *)

Tab == "\t"
Newline == "\n"
Space == " "
Comma == ","
Nbsp == "NBSP"

Digits == {"0", "1", "2", "3", "4", "5", "6", "7", "8", "9"}

\* The characters \s matches that can occur inside a row: str.splitlines()
\* already cut the text at \n, \r, \v, \f, \x1c-\x1e, \x85, U+2028, U+2029.
\* Nbsp stands for every such character other than space and tab (U+00A0,
\* \x1f, U+2000..U+200A, U+3000, ...).
Whitespace == {Space, Tab, Nbsp}

Letters == {"a", "b", "c", "d", "e", "g", "h", "i", "l", "m", "n", "o", "r",
            "t", "u", "w", "A", "D", "?"}

Char == Digits \cup Whitespace \cup Letters \cup {Comma, Newline}

NonTab == Char \ {Tab}

DigitVal(c) ==
    CASE c = "0" -> 0 [] c = "1" -> 1 [] c = "2" -> 2 [] c = "3" -> 3
      [] c = "4" -> 4 [] c = "5" -> 5 [] c = "6" -> 6 [] c = "7" -> 7
      [] c = "8" -> 8 [] c = "9" -> 9

----------------------------------------------------------------------------
(* Pure functions of the loop body *)

Min(S) == CHOOSE x \in S : \A y \in S : x <= y

\* Length of the longest run of characters of S in s that starts at from.
RunLen(s, from, S) ==
    LET stops == {k \in from..Len(s) : s[k] \notin S}
    IN  IF stops = {} THEN (IF from > Len(s) THEN 0 ELSE Len(s) - from + 1)
        ELSE Min(stops) - from

\* str.splitlines() on a text whose only line break is \n (open() in text
\* mode translates \r\n and \r to \n): no row for the text after a final \n.
RECURSIVE splitlines(_)
splitlines(s) ==
    IF s = <<>> THEN <<>>
    ELSE LET n == RunLen(s, 1, Char \ {Newline})
         IN  IF n = Len(s) THEN <<s>>
             ELSE <<SubSeq(s, 1, n)>> \o splitlines(SubSeq(s, n + 2, Len(s)))

\* int(m.group(1)): base ten, leading zeros allowed, no width limit.
RECURSIVE int(_)
int(d) ==
    IF d = <<>> THEN 0
    ELSE 10 * int(SubSeq(d, 1, Len(d) - 1)) + DigitVal(d[Len(d)])

\* str.replace(',', ' ')
replace(s) == [k \in 1..Len(s) |-> IF s[k] = Comma THEN Space ELSE s[k]]

\* pattern.match(row) for (\d+)\s([^\t]+)\t?([^\t]*)? : anchored at the
\* start of the row, not at its end.  \d+ is greedy; giving back a digit
\* puts a digit under \s, so only the whole digit run can be followed by
\* \s.  [^\t]+ is greedy and what follows it (\t?, ([^\t]*)?) can match the
\* empty text, so the first attempt, the longest run, is the match.  Group 3
\* always takes part (it matches the empty text), so group(3) is never None.
match(row) ==
    LET nd  == RunLen(row, 1, Digits)
        nt  == RunLen(row, nd + 2, NonTab)
        t   == nd + 2 + nt                  \* position after group 2
        a   == IF t <= Len(row) THEN t + 1 ELSE t   \* after \t?
        na  == RunLen(row, a, NonTab)
    IN  IF nd = 0 \/ nd + 1 > Len(row) \/ row[nd + 1] \notin Whitespace \/ nt = 0
        THEN [matched |-> FALSE, g1 |-> <<>>, g2 |-> <<>>, g3 |-> <<>>, end |-> 0]
        ELSE [matched |-> TRUE,
              g1 |-> SubSeq(row, 1, nd),
              g2 |-> SubSeq(row, nd + 2, nd + 1 + nt),
              g3 |-> SubSeq(row, a, a + na - 1),
              end |-> a + na - 1]

\* No exception raised.
NoError == [type |-> "none", args |-> <<>>]

\* Line 159 with m = None: what m.group raises.  The exception carries the
\* interpreter's message and nothing of the loop's variables.
NoneHasNoGroup ==
    [type |-> "AttributeError",
     args |-> <<"'NoneType' object has no attribute 'group'">>]

\* answers without the replacement of line 166.
answers_unreplaced(m) == m.g3

\* Lines 165-168: a non-empty group 3 has its commas replaced, an empty one
\* is passed on as it is.
answers(m) == IF m.g3 # <<>> THEN replace(m.g3) ELSE m.g3

\* Lines 160-161 with <= for <.
next_conversation_id_le(new_id, uid, cid) ==
    IF new_id <= uid THEN cid + 1 ELSE cid

\* Lines 160-161.
next_conversation_id(new_id, uid, cid) == IF new_id < uid THEN cid + 1 ELSE cid

\* The pair of lines 170-175 under enumerate(data, 1).
example_from_one(i, m, cid) ==
    [key |-> i + 1,
     utterance_id |-> int(m.g1),
     text |-> m.g2,
     answer |-> answers(m),
     conversation_id |-> cid]

\* The pair of lines 170-175 with the utterance counted from 0.
example_zero_based(i, m, cid) ==
    [key |-> i,
     utterance_id |-> int(m.g1) - 1,
     text |-> m.g2,
     answer |-> answers(m),
     conversation_id |-> cid]

\* Lines 170-175: the pair the generator yields.
example(i, m, cid) ==
    [key |-> i,
     utterance_id |-> int(m.g1),
     text |-> m.g2,
     answer |-> answers(m),
     conversation_id |-> cid]

----------------------------------------------------------------------------
(* The generator *)

\* One turn of `for id_, row in enumerate(data)` for generator g, entered
\* with enumerate index i: the loop ends (the generator raises
\* StopIteration), or pattern.match returns None and m.group(1) raises
\* AttributeError, or the turn reaches the yield and the generator is
\* suspended.
loop(g, rows, i, cid, uid) ==
    IF i >= Len(rows)
    THEN /\ pc' = [pc EXCEPT ![g] = "done"]
         /\ UNCHANGED <<id_, conversation_id, utterance_id, out, err>>
    ELSE LET m == match(rows[i + 1])
         IN  IF ~m.matched
             THEN /\ pc' = [pc EXCEPT ![g] = "failed"]
                  /\ err' = [err EXCEPT ![g] = NoneHasNoGroup]
                  /\ id_' = [id_ EXCEPT ![g] = i]
                  /\ UNCHANGED <<conversation_id, utterance_id, out>>
             ELSE LET new_id == int(m.g1)
                      ncid   == next_conversation_id(new_id, uid, cid)
                  IN  /\ pc' = [pc EXCEPT ![g] = "suspended"]
                      /\ id_' = [id_ EXCEPT ![g] = i]
                      /\ conversation_id' = [conversation_id EXCEPT ![g] = ncid]
                      /\ utterance_id' = [utterance_id EXCEPT ![g] = new_id]
                      /\ out' = [out EXCEPT ![g] = Append(@, example(i, m, ncid))]
                      /\ UNCHANGED err

\* Start with conversation_id = 1 at line 155.
Start_from_one(g) ==
    /\ pc[g] = "created"
    /\ data' = [data EXCEPT ![g] = splitlines(stream[g])]
    /\ loop(g, splitlines(stream[g]), 0, 1, 0)
    /\ fopen' = [fopen EXCEPT ![g] = (pc'[g] = "suspended")]
    /\ UNCHANGED <<stream, builder>>

\* The first next(): lines 152-156, then the loop up to its first yield.
\* f is open afterwards exactly when the generator is suspended inside the
\* with-block.
Start(g) ==
    /\ pc[g] = "created"
    /\ data' = [data EXCEPT ![g] = splitlines(stream[g])]
    /\ loop(g, splitlines(stream[g]), 0, 0, 0)
    /\ fopen' = [fopen EXCEPT ![g] = (pc'[g] = "suspended")]
    /\ UNCHANGED <<stream, builder>>

\* Resume with conversation_id and utterance_id kept in one place for all
\* generators (module globals) instead of in each generator's frame.
Resume_shared(g) ==
    /\ pc[g] = "suspended"
    /\ loop(g, data[g], id_[g] + 1, conversation_id["train"], utterance_id["train"])
    /\ fopen' = [fopen EXCEPT ![g] = (pc'[g] = "suspended")]
    /\ UNCHANGED <<stream, data, builder>>

\* A later next(): the generator resumes after the yield of line 170.
Resume(g) ==
    /\ pc[g] = "suspended"
    /\ loop(g, data[g], id_[g] + 1, conversation_id[g], utterance_id[g])
    /\ fopen' = [fopen EXCEPT ![g] = (pc'[g] = "suspended")]
    /\ UNCHANGED <<stream, data, builder>>

----------------------------------------------------------------------------
(* _split_generators *)

\* Lines 49-52.
URLs ==
    [TASK4_REDDIT |-> "http://cs.nyu.edu/~xiang/task4_reddit.tgz",
     OTHER_TASKS |-> "http://parl.ai/downloads/moviedialog/moviedialog.tar.gz"]

\* Lines 54-59.
FILE_PATH ==
    [qa |-> <<"movie_dialog_dataset", "task1_qa">>,
     recommendations |-> <<"movie_dialog_dataset", "task2_recs">>,
     qa_recommendations |-> <<"movie_dialog_dataset", "task3_qarecs">>,
     reddit |-> <<"task4_reddit">>]

\* Lines 61-65.
SPLIT_TO_SUFFIX ==
    [train |-> "_train.txt", validation |-> "_dev.txt", test |-> "_test.txt"]

\* Lines 85-91: the names of the declared configurations.
BUILDER_CONFIGS ==
    {"qa", "recommendations", "qa_recommendations", "reddit", "knowledge_base"}

\* Line 142: the splits in the order of the list.
SplitList == <<"train", "validation", "test">>

\* os.path.join of the components of dir and the relative names in parts.
path_join(dir, parts) == dir \o parts

\* Lines 129-132.
my_urls(name) ==
    IF name = "reddit" THEN URLs.TASK4_REDDIT ELSE URLs.OTHER_TASKS

\* Lines 136-141: the filepath of one SplitGenerator.  It is data_dir joined
\* with the last element of _FILE_PATH[name] plus the suffix; dpath of line
\* 134 is not used in it.
split_filepath(data_dir, name, split) ==
    path_join(data_dir,
              <<FILE_PATH[name][Len(FILE_PATH[name])] \o SPLIT_TO_SUFFIX[split]>>)

\* Lines 129-143 as one call: the URL is chosen and extracted, then
\* _FILE_PATH[self.config.name] raises KeyError for a name it does not
\* hold, else the three SplitGenerators are returned.
split_generators ==
    /\ builder.pc = "called"
    /\ LET name     == builder.name
           url      == my_urls(name)
           data_dir == builder.extracted[url]
       IN  builder' =
               IF name \notin DOMAIN FILE_PATH
               THEN [builder EXCEPT !.pc = "raised", !.url = url,
                                    !.data_dir = data_dir, !.error = "KeyError"]
               ELSE [builder EXCEPT !.pc = "returned", !.url = url,
                                    !.data_dir = data_dir,
                                    !.result =
                                        [k \in 1..Len(SplitList) |->
                                            [name |-> SplitList[k],
                                             filepath |->
                                                 split_filepath(data_dir, name,
                                                                SplitList[k])]]]
    /\ UNCHANGED <<stream, pc, fopen, data, id_, conversation_id, utterance_id,
                   out, err>>

NextSplit == split_generators

Next == (\E g \in DOMAIN pc : Start(g)) \/ (\E g \in DOMAIN pc : Resume(g))

----------------------------------------------------------------------------
(* Inputs *)

MaxLines == 3
MaxLineLen == 5
MaxParLines == 2
MaxDirDepth == 2

\* The splits of line 142, one generator each.
Splits == {"train", "validation", "test"}

\* rows joined by \n, with a final \n when nl.
RECURSIVE join(_, _)
join(rows, nl) ==
    IF rows = <<>> THEN <<>>
    ELSE IF Len(rows) = 1 THEN (IF nl THEN rows[1] \o <<Newline>> ELSE rows[1])
    ELSE rows[1] \o <<Newline>> \o join(Tail(rows), nl)

SeqsUpTo(S, n) == UNION {[1..k -> S] : k \in 0..n}

\* Files of whole rows: numeric prefixes 0, 1, 2 and 10 before " a", a row
\* with an answer, an empty row and a row without a number.
Prefixes == {<<"0">>, <<"1">>, <<"2">>, <<"1", "0">>}
PoolRows ==
    {pre \o <<Space, "a">> : pre \in Prefixes}
        \cup {<<"1", Space, "a", Tab, "a", Comma, "a">>, <<>>, <<"a">>}
FileStreams == {join(f, nl) : f \in SeqsUpTo(PoolRows, MaxLines), nl \in BOOLEAN}

\* One-row files of every shape over a small alphabet.
LineAlphabet == {"1", Space, Tab, Nbsp, Comma, "a"}
LineStreams == SeqsUpTo(LineAlphabet, MaxLineLen)

\* The inputs the specification's section 8 names.
Row(pre) == <<pre, Space, "a">>
PrefixExample == <<"1", "2", "3", "1", "2", "1", "2", "3", "4">>
ExampleFile == [k \in 1..Len(PrefixExample) |-> Row(PrefixExample[k])]
GenreLine ==
    <<"3", " ", "w", "h", "a", "t", " ", "g", "e", "n", "r", "e", "?", Tab,
      "A", "c", "t", "i", "o", "n", ",", "D", "r", "a", "m", "a">>
HelloLine == <<"1", " ", "h", "e", "l", "l", "o", " ", "t", "h", "e", "r", "e">>
AbcLine == <<"a", "b", "c", " ", "n", "o", " ", "n", "u", "m", "b", "e", "r">>
ExampleStreams == {join(ExampleFile, TRUE), GenreLine, HelloLine, AbcLine}

Streams == FileStreams \cup LineStreams \cup ExampleStreams

ParRows == {<<"1", Space, "a">>, <<"2", Space, "a">>}
ParStreams == {join(f, TRUE) : f \in SeqsUpTo(ParRows, MaxParLines)}

InitOver(G, S) ==
    /\ stream \in [G -> S]
    /\ pc = [g \in G |-> "created"]
    /\ fopen = [g \in G |-> FALSE]
    /\ data = [g \in G |-> <<>>]
    /\ id_ = [g \in G |-> 0]
    /\ conversation_id = [g \in G |-> 0]
    /\ utterance_id = [g \in G |-> 0]
    /\ out = [g \in G |-> <<>>]
    /\ err = [g \in G |-> NoError]

\* Directories dl_manager.download_and_extract may return.
DirNames == {"cache", "extracted"}
Dirs == SeqsUpTo(DirNames, MaxDirDepth) \ {<<>>}

\* _split_generators not called.
NoBuilder ==
    [name |-> "none", extracted |-> [u \in {} |-> <<>>], pc |-> "idle",
     url |-> "none", data_dir |-> <<>>, result |-> <<>>, error |-> "none"]

\* _split_generators about to be called on a builder of configuration name.
CalledBuilder(name, extracted) ==
    [name |-> name, extracted |-> extracted, pc |-> "called",
     url |-> "none", data_dir |-> <<>>, result |-> <<>>, error |-> "none"]

\* One generator over any input.
Init == InitOver({"train"}, Streams) /\ builder = NoBuilder

\* One generator per split, pulled in any interleaving.
InitPar == InitOver(Splits, ParStreams) /\ builder = NoBuilder

\* A builder of any declared configuration, no generator created yet.
InitSplit ==
    /\ InitOver({}, Streams)
    /\ \E name \in BUILDER_CONFIGS :
           \E extracted \in [{URLs.TASK4_REDDIT, URLs.OTHER_TASKS} -> Dirs] :
               builder = CalledBuilder(name, extracted)

Spec == Init /\ [][Next]_vars

SpecPar == InitPar /\ [][Next]_vars

SpecSplit == InitSplit /\ [][NextSplit]_vars

----------------------------------------------------------------------------
(* The line grammar of the specification, section 4.1, and the fields it   *)
(* names, stated on the row itself.                                        *)

Rows(g) == splitlines(stream[g])

\* digits+, one space, one or more non-tab characters, then optionally one
\* tab and zero or more non-tab characters, and nothing else.
WellFormed(row) ==
    \E n \in 1..Len(row) :
        /\ \A k \in 1..n : row[k] \in Digits
        /\ n + 2 <= Len(row)
        /\ row[n + 1] = Space
        /\ row[n + 2] # Tab
        /\ Cardinality({k \in (n + 2)..Len(row) : row[k] = Tab}) <= 1

AllWellFormed(rows) == \A k \in 1..Len(rows) : WellFormed(rows[k])

\* Position of the first character of S in row, Len(row) + 1 if none.
FirstOf(row, S) ==
    LET at == {k \in 1..Len(row) : row[k] \in S}
    IN  IF at = {} THEN Len(row) + 1 ELSE Min(at)

\* Fields of a well-formed row.
LinePrefix(row) == SubSeq(row, 1, FirstOf(row, {Space}) - 1)
LineText(row) == SubSeq(row, FirstOf(row, {Space}) + 1, FirstOf(row, {Tab}) - 1)
LineAnswer(row) == SubSeq(row, FirstOf(row, {Tab}) + 1, Len(row))

\* The number a digit string denotes.
Value(d) ==
    LET v[k \in 0..Len(d)] == IF k = 0 THEN 0 ELSE 10 * v[k - 1] + DigitVal(d[k])
    IN  v[Len(d)]

LineId(row) == Value(LinePrefix(row))

\* s with every comma turned into one space.
Uncomma(s, r) ==
    /\ Len(r) = Len(s)
    /\ \A k \in 1..Len(s) : r[k] = IF s[k] = Comma THEN Space ELSE s[k]

----------------------------------------------------------------------------
(* Claims *)

\* C1: for an input whose rows all match the line grammar, the generator
\* does not fail, emits one record per row in input order (record i carries
\* the text and the number of row i), all of them once it is done, and the
\* key of the i-th record is i counting from 0.
C1_OneRecordPerLine ==
    \A g \in DOMAIN pc :
        LET rows == Rows(g) IN
        AllWellFormed(rows) =>
            /\ pc[g] # "failed"
            /\ Len(out[g]) <= Len(rows)
            /\ pc[g] = "done" => Len(out[g]) = Len(rows)
            /\ \A i \in 1..Len(out[g]) :
                   /\ out[g][i].key = i - 1
                   /\ out[g][i].text = LineText(rows[i])
                   /\ out[g][i].utterance_id = LineId(rows[i])

\* A finished parse of three or more well-formed rows with a conversation
\* boundary before the third.
C1_Witness ==
    \E g \in DOMAIN pc :
        /\ pc[g] = "done"
        /\ AllWellFormed(Rows(g))
        /\ Len(out[g]) >= 3
        /\ out[g][3].key = 2
        /\ out[g][3].conversation_id = 1

C3_TextAndAnswer ==
    \A g \in DOMAIN pc :
        \A i \in 1..Len(out[g]) :
            LET row == Rows(g)[i]
                rec == out[g][i]
            IN  WellFormed(row) =>
                    /\ rec.text = LineText(row)
                    /\ Uncomma(LineAnswer(row), rec.answer)
                    /\ \A k \in 1..Len(rec.answer) : rec.answer[k] # Comma
                    /\ LineAnswer(row) = <<>> => rec.answer = <<>>
                    /\ row = GenreLine =>
                           /\ rec.text = SubSeq(GenreLine, 3, 13)
                           /\ rec.answer =
                                  <<"A", "c", "t", "i", "o", "n", " ",
                                    "D", "r", "a", "m", "a">>
                    /\ row = HelloLine =>
                           /\ rec.text = SubSeq(HelloLine, 3, 13)
                           /\ rec.answer = <<>>

\* The genre line parsed: its answer had a comma.
C3_Witness ==
    \E g \in DOMAIN pc :
        /\ Rows(g) = <<GenreLine>>
        /\ Len(out[g]) = 1
        /\ Comma \in {GenreLine[k] : k \in 15..Len(GenreLine)}
        /\ out[g][1].answer[7] = Space

\* C4: a row becomes a record only if the whole row matches the grammar
\* (one literal space after the digits, at most one tab).
C4_OnlyWellFormedAccepted ==
    \A g \in DOMAIN pc :
        \A i \in 1..Len(out[g]) : WellFormed(Rows(g)[i])

\* C5: a row that does not match the grammar ends the parse in a failure
\* that names the row's index and its raw text, and is not the unrelated
\* attribute error on None; no record is emitted for the row.
C5_MalformedLineReported ==
    \A g \in DOMAIN pc :
        LET rows == Rows(g)
            bad  == {k \in 1..Len(rows) : ~WellFormed(rows[k])}
        IN  /\ (bad # {} /\ pc[g] # "failed") => Len(out[g]) < Min(bad)
            /\ pc[g] = "failed" =>
                   /\ err[g] # NoneHasNoGroup
                   /\ Len(err[g].args) >= 2
                   /\ err[g].args[1] = id_[g]
                   /\ err[g].args[2] = rows[id_[g] + 1]

NonEmpty(row) == row # <<>>

\* C6: for an input of well-formed rows and empty rows, the parse reaches
\* the end of the stream and emits one record per non-empty row, in order,
\* and none for an empty row.
C6_EmptyLinesSkipped ==
    \A g \in DOMAIN pc :
        LET rows == Rows(g)
            full == SelectSeq(rows, NonEmpty)
        IN  (\A k \in 1..Len(rows) : rows[k] = <<>> \/ WellFormed(rows[k])) =>
                /\ pc[g] # "failed"
                /\ Len(out[g]) <= Len(full)
                /\ pc[g] = "done" => Len(out[g]) = Len(full)
                /\ \A i \in 1..Len(out[g]) :
                       out[g][i].utterance_id = LineId(full[i])

\* C7 as stated: every record of a well-formed input has utterance_id >= 1.
C7_UtteranceIdAtLeastOne ==
    \A g \in DOMAIN pc :
        AllWellFormed(Rows(g)) =>
            \A i \in 1..Len(out[g]) : out[g][i].utterance_id >= 1

\* C7, amended: every record of a well-formed input has utterance_id >= 0;
\* it is the number the row's digits denote, and that may be 0.
C7_UtteranceIdNonNegative ==
    \A g \in DOMAIN pc :
        AllWellFormed(Rows(g)) =>
            \A i \in 1..Len(out[g]) :
                /\ out[g][i].utterance_id >= 0
                /\ out[g][i].utterance_id = LineId(Rows(g)[i])

\* A record of a well-formed input with utterance_id 0.
C7_Witness ==
    \E g \in DOMAIN pc :
        /\ AllWellFormed(Rows(g))
        /\ \E i \in 1..Len(out[g]) :
               /\ LinePrefix(Rows(g)[i]) = <<"0">>
               /\ out[g][i].utterance_id = 0

\* C8: in a file whose IDs are all 1 or more, every row but the first whose
\* ID is 1 starts a new conversation, also when the row before it has ID 1.
C8_IdOneStartsConversation ==
    \A g \in DOMAIN pc :
        (\A k \in 1..Len(out[g]) : out[g][k].utterance_id >= 1) =>
            \A i \in 2..Len(out[g]) :
                out[g][i].utterance_id = 1 =>
                    out[g][i].conversation_id = out[g][i - 1].conversation_id + 1

\* The record of row i of rows, from the rows alone.
Expected(rows, i) ==
    [key |-> i - 1,
     utterance_id |-> LineId(rows[i]),
     text |-> LineText(rows[i]),
     answer |-> [k \in 1..Len(LineAnswer(rows[i])) |->
                    IF LineAnswer(rows[i])[k] = Comma THEN Space
                    ELSE LineAnswer(rows[i])[k]],
     conversation_id |->
         Cardinality({j \in 2..i : LineId(rows[j]) < LineId(rows[j - 1])})]

IsPrefix(s, t) == Len(s) <= Len(t) /\ \A k \in 1..Len(s) : s[k] = t[k]

\* C9: whatever the interleaving of the pulls of the generators, the records
\* a generator has yielded are fixed by its own stream's rows; generators
\* over the same text yield the same records, and a finished generator has
\* yielded one record per row.
C9_ParsesIndependent ==
    \A g \in DOMAIN pc :
        LET rows == Rows(g) IN
        AllWellFormed(rows) =>
            /\ pc[g] # "failed"
            /\ Len(out[g]) <= Len(rows)
            /\ pc[g] = "done" => Len(out[g]) = Len(rows)
            /\ \A i \in 1..Len(out[g]) : out[g][i] = Expected(rows, i)
            /\ \A h \in DOMAIN pc :
                   stream[h] = stream[g] =>
                       /\ IsPrefix(out[g], out[h]) \/ IsPrefix(out[h], out[g])
                       /\ (pc[g] = "done" /\ pc[h] = "done") => out[g] = out[h]

\* The three generators suspended together after two pulls each: two over
\* the same text, the third over a text with a conversation boundary.
C9_Witness ==
    /\ DOMAIN pc = Splits
    /\ \A g \in Splits : pc[g] = "suspended" /\ Len(out[g]) = 2
    /\ stream["train"] = stream["validation"]
    /\ stream["test"] # stream["train"]
    /\ out["train"] = out["validation"]
    /\ out["train"][2].conversation_id = 0
    /\ out["test"][2].conversation_id = 1

\* C10: the first record has conversation_id 0 whatever its number, each
\* later record has the previous record's conversation_id or one more, so
\* 0 <= conversation_id <= key; a one-row input gives one record with
\* conversation_id 0 and key 0.
C10_ConversationIdContiguous ==
    \A g \in DOMAIN pc :
        /\ \A i \in 1..Len(out[g]) :
               /\ i = 1 => out[g][i].conversation_id = 0
               /\ i > 1 =>
                      out[g][i].conversation_id \in
                          {out[g][i - 1].conversation_id,
                           out[g][i - 1].conversation_id + 1}
               /\ 0 <= out[g][i].conversation_id
               /\ out[g][i].conversation_id <= out[g][i].key
        /\ (Len(Rows(g)) = 1 /\ WellFormed(Rows(g)[1]) /\ pc[g] = "done") =>
               /\ Len(out[g]) = 1
               /\ out[g][1].conversation_id = 0
               /\ out[g][1].key = 0

\* A finished parse whose first row has a number above 1 and whose third
\* record is in the third conversation.
C10_Witness ==
    \E g \in DOMAIN pc :
        /\ pc[g] = "done"
        /\ Len(out[g]) >= 3
        /\ out[g][1].utterance_id > 1
        /\ out[g][1].conversation_id = 0
        /\ out[g][3].conversation_id = 2

\* C11: the parser is lazy row by row: while no row has failed, the rows it
\* has read from the stream (the list it holds) are at most the records the
\* caller has pulled plus one, and between pulls it buffers no row beyond
\* the current one.
C11_LazyLineByLine ==
    \A g \in DOMAIN pc :
        /\ pc[g] # "failed" => Len(data[g]) <= Len(out[g]) + 1
        /\ pc[g] = "suspended" => Len(data[g]) = id_[g] + 1

\* C12: a generator suspended between two pulls does not hold open a file
\* handle that it opened itself.
C12_NoHandleWhileSuspended ==
    \A g \in DOMAIN pc : pc[g] = "suspended" => ~fopen[g]

\* C14: when the first row that fails the grammar is at 0-based position k,
\* the parse never runs past it: it emits at most k records, exactly k once
\* it has failed, it does not finish, and the records are those of the
\* first k rows parsed alone.
C14_PrefixBeforeFirstFailure ==
    \A g \in DOMAIN pc :
        LET rows == Rows(g)
            bad  == {j \in 1..Len(rows) : ~WellFormed(rows[j])}
        IN  bad # {} =>
                LET k == Min(bad) - 1 IN
                /\ Len(out[g]) <= k
                /\ pc[g] # "done"
                /\ pc[g] = "failed" => Len(out[g]) = k
                /\ \A i \in 1..Len(out[g]) :
                       out[g][i] = Expected(SubSeq(rows, 1, k), i)

\* C14 with "fails the grammar" read as "pattern.match returns None": the
\* parse stops at the first such row, with one record for each row before it.
C14_StopsAtFirstUnmatched ==
    \A g \in DOMAIN pc :
        LET rows == Rows(g)
            bad  == {j \in 1..Len(rows) : ~match(rows[j]).matched}
        IN  bad # {} =>
                /\ Len(out[g]) <= Min(bad) - 1
                /\ pc[g] # "done"
                /\ pc[g] = "failed" =>
                       Len(out[g]) = Min(bad) - 1 /\ id_[g] = Min(bad) - 1

\* C13: for every declared configuration _split_generators raises nothing
\* and returns exactly three split generators, train, validation and test,
\* each with a filepath that ends in the configuration's file name with that
\* split's suffix, under data_dir; the three filepaths differ pairwise.
C13_ThreeSplitsForEveryConfig ==
    /\ builder.pc # "raised"
    /\ builder.pc = "returned" =>
           LET r == builder.result IN
           /\ Len(r) = 3
           /\ [k \in 1..3 |-> r[k].name] = <<"train", "validation", "test">>
           /\ \A k \in 1..3 :
                  LET base == FILE_PATH[builder.name]
                      suffix == <<"_train.txt", "_dev.txt", "_test.txt">>[k]
                  IN  /\ IsPrefix(builder.data_dir, r[k].filepath)
                      /\ r[k].filepath[Len(r[k].filepath)]
                             = base[Len(base)] \o suffix
           /\ \A j, k \in 1..3 : j # k => r[j].filepath # r[k].filepath

=============================================================================
